---- MODULE Spec2Model ----
(***************************************************************************)
(* Observer pattern of the YouTube notification system:                    *)
(* observer/subject.py (YouTubeChannel), observer/interfaces.py (Observer, *)
(* Subject) and observer/observers.py (the concrete subscribers).          *)
(* observer_pattern.py is the same code in a single file.                  *)
(*                                                                         *)
(* The program is single-threaded.  A call of attach, detach, notify or    *)
(* upload_video by the caller is a top-level call; it is taken only while  *)
(* no fan-out is running (pc = "idle").  notify's for-loop is modelled by  *)
(* its position: one step per iteration, which invokes one update and      *)
(* ends as that update ends.  The update of the three subscriber classes   *)
(* of observers.py prints and returns.  Observer.update is abstract, so    *)
(* the update of any other implementation may return, raise, or call       *)
(* attach/detach of the publishing channel before it returns.              *)
(***************************************************************************)
EXTENDS Integers, Sequences, FiniteSets, TLC

\* Number of observer objects the caller has constructed.
NumObservers == 3

\* Observer objects, by identity.
Observers == 1..NumObservers

\* YouTubeChannel instances, by identity.
Channels == {"ch1", "ch2"}

\* The instance the caller of Spec calls; the other one is constructed and
\* left alone.
MainChannels == {"ch1"}

\* channel_name given to each constructor (main.py:25 uses "TechMaster").
NameOf(c) == IF c = "ch1" THEN "TechMaster" ELSE "CodeCast"

\* video_title arguments of upload_video (main.py:39, 46, 54).
Titles == {"Python Design Patterns Tutorial",
           "Advanced Observer Pattern Explained",
           "Clean Code Principles in Python"}

\* The four observer objects main() of main.py constructs (main.py:28-30, 50):
\* subscriber1 .. subscriber4 are objects 11 .. 14.
DemoObservers == {11, 12, 13, 14}

\* The class of each observer object.  Objects 1 and 2 are two
\* EmailSubscriber objects built with the same address; object 3 is an
\* instance of some other implementation of the abstract Observer.
ClassOf(o) == IF o = 11 \/ o = 14 THEN "EmailSubscriber"
              ELSE IF o = 12 THEN "MobileAppSubscriber"
              ELSE IF o = 13 THEN "SMSSubscriber"
              ELSE IF o <= 2 THEN "EmailSubscriber"
              ELSE IF o = 3 THEN "Observer"
              ELSE IF o % 2 = 0 THEN "MobileAppSubscriber" ELSE "SMSSubscriber"

\* The configuration string each observer object was built with.
ConfigOf(o) == IF o = 11 THEN "alice@example.com"
               ELSE IF o = 12 THEN "bob_dev"
               ELSE IF o = 13 THEN "+7-777-123-4567"
               ELSE IF o = 14 THEN "charlie@example.com"
               ELSE IF o <= 2 THEN "alice@example.com"
               ELSE IF o = 3 THEN ""
               ELSE IF o % 2 = 0 THEN "bob_dev" ELSE "+7-777-123-4567"

\* __str__ of the subscriber classes: class name and configuration.
Str(o) == <<ClassOf(o), ConfigOf(o)>>

\* EmailSubscriber.update, MobileAppSubscriber.update and SMSSubscriber.update
\* print two lines and return; only another implementation can do otherwise.
PrintsAndReturns(o) ==
    ClassOf(o) \in {"EmailSubscriber", "MobileAppSubscriber", "SMSSubscriber"}

VARIABLES
    channel_name,    \* [Channels -> name]           self._channel_name
    subscribers,     \* [Channels -> Seq(Observers)] self._subscribers
    latest_video,    \* [Channels -> title or ""]    self._latest_video
    pc,              \* "idle", or "notify" while notify's for-loop runs
    cur,             \* the channel of the running (or last) call
    idx,             \* position of the list iterator of notify's for-loop
    outcome,         \* how the last top-level call ended
    delivered,       \* the update invocations of the running (or last) fan-out
    announced,       \* the count printed by notify ("Notifying N subscribers")
    confirmations,   \* the lines printed by attach/detach during the last call
    lastCall,        \* the last top-level call and its argument
    snapshot,        \* history: the subscriber list when the fan-out began
    reentered,       \* history: an update of this fan-out called attach/detach
    attached,        \* history: handles whose latest attach/detach call was attach
    published,       \* history: argument of the latest upload_video call
    prev,            \* history: what the directly preceding upload_video invoked
    balance,         \* history: "subscribed" lines minus "unsubscribed" lines printed
    main             \* position and objects of main() of main.py, when it runs

vars == <<channel_name, subscribers, latest_video, pc, cur, idx, outcome,
          delivered, announced, confirmations, lastCall, snapshot, reentered,
          attached, published, prev, balance, main>>

\* The three fields of a YouTubeChannel.
registry == <<channel_name, subscribers, latest_video>>

----------------------------------------------------------------------------
\* Python list and equality operations used by YouTubeChannel.

\* None of the observer classes defines __eq__: == is object identity.
EqByConfig(a, b) == Str(a) = Str(b)
Eq(a, b) == a = b

\* observer in self._subscribers
Contains(list, h) == \E i \in 1..Len(list) : Eq(list[i], h)

\* Position of the first element equal to h (list.remove's search).
IndexOf(list, h) ==
    CHOOSE i \in 1..Len(list) :
        Eq(list[i], h) /\ \A j \in 1..(i - 1) : ~Eq(list[j], h)

\* list.remove(h) on a list that contains h: drops the first match.
Remove(list, h) ==
    LET i == IndexOf(list, h)
    IN  SubSeq(list, 1, i - 1) \o SubSeq(list, i + 1, Len(list))

\* self._subscribers after attach(h).
AttachNoCheck(list, h) == Append(list, h)
AttachMovesToEnd(list, h) == Append(SelectSeq(list, LAMBDA x : x # h), h)
AttachAtFront(list, h) == IF ~Contains(list, h) THEN <<h>> \o list ELSE list
AttachList(list, h) == IF ~Contains(list, h) THEN Append(list, h) ELSE list

\* self._subscribers after detach(h).
DetachLast(list, h) ==
    IF Contains(list, h) THEN SubSeq(list, 1, Len(list) - 1) ELSE list
DetachList(list, h) == IF Contains(list, h) THEN Remove(list, h) ELSE list

\* What attach(h) prints: one line exactly when it appends.
AttachPrintsAlways(c, h) ==
    <<[kind |-> "subscribed", who |-> Str(h), channel |-> channel_name[c]]>>
AttachPrints(c, h) ==
    IF ~Contains(subscribers[c], h)
    THEN <<[kind |-> "subscribed", who |-> Str(h), channel |-> channel_name[c]]>>
    ELSE <<>>

\* What detach(h) prints: one line exactly when it removes.
DetachPrints(c, h) ==
    IF Contains(subscribers[c], h)
    THEN <<[kind |-> "unsubscribed", who |-> Str(h), channel |-> channel_name[c]]>>
    ELSE <<>>

\* How detach(h) ends: the membership test guards list.remove, so it returns.
DetachRaisesIfAbsent(c, h) ==
    IF Contains(subscribers[c], h) THEN "returned" ELSE "raised"
DetachOutcome(c, h) == "returned"

\* self._latest_video after upload_video(t): assigned before notify is called.
StoreNothing(old, t) == old
StoredVideo(old, t) == t

\* The arguments notify passes to subscriber.update.
UpdateArgsSwapped(c, o) ==
    [obs |-> o, video_title |-> channel_name[c], channel_name |-> latest_video[c]]
UpdateArgs(c, o) ==
    [obs |-> o, video_title |-> latest_video[c], channel_name |-> channel_name[c]]

\* The handles of a sequence of update invocations.
Handles(d) == [i \in 1..Len(d) |-> d[i].obs]

\* The elements of a list, and how often h occurs in a sequence of handles.
Elems(list) == {list[i] : i \in 1..Len(list)}
Count(list, h) == Cardinality({i \in 1..Len(list) : list[i] = h})

\* The observer the running iteration invokes.
Invoked == subscribers[cur][idx]

NoCall == [op |-> "none", chan |-> "ch1", obs |-> 0, title |-> "", again |-> FALSE]
NoPrev == [valid |-> FALSE, chan |-> "ch1", title |-> "", seq |-> <<>>]
NoMain == [pc |-> 0, obs |-> <<>>, titles |-> <<>>]

\* main() after one more of its calls; position 0 when main() is not the caller.
Advance == IF main.pc = 0 THEN main ELSE [main EXCEPT !.pc = @ + 1]

\* The top-level call op(c, h) directly follows the same call, which changed the list.
Again(op, c, h) ==
    /\ lastCall.op = op /\ lastCall.chan = c /\ lastCall.obs = h
    /\ confirmations # <<>>

----------------------------------------------------------------------------
\* YouTubeChannel.__init__ for every instance; nothing has been called.
Constructed ==
    /\ channel_name = [c \in Channels |-> NameOf(c)]
    /\ subscribers = [c \in Channels |-> <<>>]
    /\ latest_video = [c \in Channels |-> ""]
    /\ pc = "idle"
    /\ cur = "ch1"
    /\ idx = 0
    /\ outcome = "none"
    /\ delivered = <<>>
    /\ announced = 0
    /\ confirmations = <<>>
    /\ lastCall = NoCall
    /\ snapshot = <<>>
    /\ reentered = FALSE
    /\ attached = [c \in Channels |-> {}]
    /\ published = [c \in Channels |-> ""]
    /\ prev = NoPrev
    /\ balance = [c \in Channels |-> 0]

\* The channels are constructed and main() of main.py is not what calls them.
Init == Constructed /\ main = NoMain

\* The caller calls channel c's attach(h).
AttachThenNotify(c, h) ==
    /\ pc = "idle"
    /\ subscribers' = [subscribers EXCEPT ![c] = AttachList(@, h)]
    /\ confirmations' = AttachPrints(c, h)
    /\ outcome' = "running"
    /\ lastCall' = [op |-> "attach", chan |-> c, obs |-> h, title |-> "",
                    again |-> Again("attach", c, h)]
    /\ attached' = [attached EXCEPT ![c] = @ \cup {h}]
    /\ balance' = [balance EXCEPT ![c] = @ + Len(AttachPrints(c, h))]
    /\ cur' = c
    /\ idx' = 1
    /\ delivered' = <<>>
    /\ announced' = Len(AttachList(subscribers[c], h))
    /\ snapshot' = AttachList(subscribers[c], h)
    /\ reentered' = FALSE
    /\ prev' = NoPrev
    /\ main' = Advance
    /\ pc' = "notify"
    /\ UNCHANGED <<channel_name, latest_video, published>>
AttachSharedList(c, h) ==
    /\ pc = "idle"
    /\ subscribers' = [d \in Channels |-> AttachList(subscribers[d], h)]
    /\ confirmations' = AttachPrints(c, h)
    /\ outcome' = "returned"
    /\ lastCall' = [op |-> "attach", chan |-> c, obs |-> h, title |-> "",
                    again |-> Again("attach", c, h)]
    /\ attached' = [attached EXCEPT ![c] = @ \cup {h}]
    /\ balance' = [balance EXCEPT ![c] = @ + Len(AttachPrints(c, h))]
    /\ cur' = c
    /\ idx' = 0
    /\ delivered' = <<>>
    /\ announced' = 0
    /\ snapshot' = <<>>
    /\ reentered' = FALSE
    /\ prev' = NoPrev
    /\ main' = Advance
    /\ UNCHANGED <<channel_name, latest_video, pc, published>>
Attach(c, h) ==
    /\ pc = "idle"
    /\ subscribers' = [subscribers EXCEPT ![c] = AttachList(@, h)]
    /\ confirmations' = AttachPrints(c, h)
    /\ outcome' = "returned"
    /\ lastCall' = [op |-> "attach", chan |-> c, obs |-> h, title |-> "",
                    again |-> Again("attach", c, h)]
    /\ attached' = [attached EXCEPT ![c] = @ \cup {h}]
    /\ balance' = [balance EXCEPT ![c] = @ + Len(AttachPrints(c, h))]
    /\ cur' = c
    /\ idx' = 0
    /\ delivered' = <<>>
    /\ announced' = 0
    /\ snapshot' = <<>>
    /\ reentered' = FALSE
    /\ prev' = NoPrev
    /\ main' = Advance
    /\ UNCHANGED <<channel_name, latest_video, pc, published>>

\* The caller calls channel c's detach(h).
Detach(c, h) ==
    /\ pc = "idle"
    /\ subscribers' = [subscribers EXCEPT ![c] = DetachList(@, h)]
    /\ confirmations' = DetachPrints(c, h)
    /\ outcome' = DetachOutcome(c, h)
    /\ lastCall' = [op |-> "detach", chan |-> c, obs |-> h, title |-> "",
                    again |-> Again("detach", c, h)]
    /\ attached' = [attached EXCEPT ![c] = @ \ {h}]
    /\ balance' = [balance EXCEPT ![c] = @ - Len(DetachPrints(c, h))]
    /\ cur' = c
    /\ idx' = 0
    /\ delivered' = <<>>
    /\ announced' = 0
    /\ snapshot' = <<>>
    /\ reentered' = FALSE
    /\ prev' = NoPrev
    /\ main' = Advance
    /\ UNCHANGED <<channel_name, latest_video, pc, published>>

\* notify up to its for-loop: prints the count and creates the list iterator.
BeginNotify(c) ==
    /\ pc' = "notify"
    /\ cur' = c
    /\ idx' = 1
    /\ outcome' = "running"
    /\ delivered' = <<>>
    /\ announced' = Len(subscribers[c])
    /\ confirmations' = <<>>
    /\ snapshot' = subscribers[c]
    /\ reentered' = FALSE

\* The caller calls channel c's upload_video(t): store, then notify.
UploadVideo(c, t) ==
    /\ pc = "idle"
    /\ latest_video' = [latest_video EXCEPT ![c] = StoredVideo(@, t)]
    /\ BeginNotify(c)
    /\ lastCall' = [op |-> "upload_video", chan |-> c, obs |-> 0, title |-> t,
                    again |-> FALSE]
    /\ published' = [published EXCEPT ![c] = t]
    /\ prev' = IF lastCall.op = "upload_video" /\ lastCall.chan = c
               THEN [valid |-> ~reentered, chan |-> c, title |-> lastCall.title,
                     seq |-> Handles(delivered)]
               ELSE NoPrev
    /\ main' = Advance
    /\ UNCHANGED <<channel_name, subscribers, attached, balance>>

\* The caller calls channel c's notify() directly.
Notify(c) ==
    /\ pc = "idle"
    /\ BeginNotify(c)
    /\ lastCall' = [op |-> "notify", chan |-> c, obs |-> 0, title |-> "",
                    again |-> FALSE]
    /\ prev' = NoPrev
    /\ main' = Advance
    /\ UNCHANGED <<channel_name, subscribers, latest_video, attached, published,
                   balance>>

\* One iteration of notify's for-loop: the list iterator yields
\* self._subscribers[idx] (it reads the live list) and update is called.
Invoke ==
    /\ pc = "notify"
    /\ idx <= Len(subscribers[cur])
    /\ delivered' = Append(delivered, UpdateArgs(cur, Invoked))

\* The update returns; the loop goes on.
UpdateReturns ==
    /\ Invoke
    /\ idx' = idx + 1
    /\ UNCHANGED <<channel_name, subscribers, latest_video, pc, cur, outcome,
                   announced, confirmations, lastCall, snapshot, reentered,
                   attached, published, prev, balance, main>>

\* The update raises: neither notify nor upload_video catches, so the
\* exception leaves the loop and the call.
UpdateRaises ==
    /\ Invoke
    /\ ~PrintsAndReturns(Invoked)
    /\ pc' = "idle"
    /\ outcome' = "raised"
    /\ UNCHANGED <<channel_name, subscribers, latest_video, cur, idx,
                   announced, confirmations, lastCall, snapshot, reentered,
                   attached, published, prev, balance, main>>

\* The update calls attach(h) of the publishing channel, then returns.
UpdateAttaches(h) ==
    /\ Invoke
    /\ ~PrintsAndReturns(Invoked)
    /\ subscribers' = [subscribers EXCEPT ![cur] = AttachList(@, h)]
    /\ confirmations' = confirmations \o AttachPrints(cur, h)
    /\ attached' = [attached EXCEPT ![cur] = @ \cup {h}]
    /\ balance' = [balance EXCEPT ![cur] = @ + Len(AttachPrints(cur, h))]
    /\ reentered' = TRUE
    /\ idx' = idx + 1
    /\ UNCHANGED <<channel_name, latest_video, pc, cur, outcome, announced,
                   lastCall, snapshot, published, prev, main>>

\* The update calls detach(h) of the publishing channel, then returns.
UpdateDetaches(h) ==
    /\ Invoke
    /\ ~PrintsAndReturns(Invoked)
    /\ subscribers' = [subscribers EXCEPT ![cur] = DetachList(@, h)]
    /\ confirmations' = confirmations \o DetachPrints(cur, h)
    /\ attached' = [attached EXCEPT ![cur] = @ \ {h}]
    /\ balance' = [balance EXCEPT ![cur] = @ - Len(DetachPrints(cur, h))]
    /\ reentered' = TRUE
    /\ idx' = idx + 1
    /\ UNCHANGED <<channel_name, latest_video, pc, cur, outcome, announced,
                   lastCall, snapshot, published, prev, main>>

\* The list iterator is exhausted: notify (and upload_video) return.
NotifyReturns ==
    /\ pc = "notify"
    /\ idx > Len(subscribers[cur])
    /\ pc' = "idle"
    /\ outcome' = "returned"
    /\ UNCHANGED <<channel_name, subscribers, latest_video, cur, idx,
                   delivered, announced, confirmations, lastCall, snapshot,
                   reentered, attached, published, prev, balance, main>>

\* The steps of a running fan-out.
FanOut ==
    \/ UpdateReturns
    \/ UpdateRaises
    \/ \E h \in Observers : UpdateAttaches(h)
    \/ \E h \in Observers : UpdateDetaches(h)
    \/ NotifyReturns

\* The calls a caller makes on the channels of set C.
Calls(C) ==
    \/ \E c \in C, h \in Observers : Attach(c, h)
    \/ \E c \in C, h \in Observers : Detach(c, h)
    \/ \E c \in C, t \in Titles : UploadVideo(c, t)
    \/ \E c \in C : Notify(c)

Next == Calls(MainChannels) \/ FanOut

\* One channel in use.
Spec == Init /\ [][Next]_vars

\* The title a caller of two channels uploads to each: one title per
\* channel, and not the same one, which is what tells the payloads apart.
TitleFor(c) == IF c = "ch1" THEN "Python Design Patterns Tutorial"
               ELSE "Advanced Observer Pattern Explained"

\* A caller that attaches to, detaches from and uploads to both channel
\* instances.
NextTwo ==
    \/ \E c \in Channels, h \in Observers : Attach(c, h)
    \/ \E c \in Channels, h \in Observers : Detach(c, h)
    \/ \E c \in Channels : UploadVideo(c, TitleFor(c))
    \/ FanOut

\* Two channels in use.
SpecTwo == Init /\ [][NextTwo]_vars

----------------------------------------------------------------------------
\* main() of main.py: the reference scenario.  Its inputs are which of the
\* four constructed objects is subscriber1 .. subscriber4 and which titles
\* are uploaded; main.py itself is the run with objects 11, 12, 13, 14 and
\* the three titles in the order of Titles' listing.

\* The assignments of the four objects to subscriber1 .. subscriber4.
Roles == {p \in [1..4 -> DemoObservers] : \A i, j \in 1..4 : i # j => p[i] # p[j]}

\* main() is entered: tech_channel is constructed, nothing is called yet.
InitDemo ==
    /\ Constructed
    /\ main \in {[pc |-> 1, obs |-> p, titles |-> t] :
                    p \in Roles, t \in [1..3 -> Titles]}

\* The eight calls of main(), in program order (main.py:34-54).
MainCalls ==
    \/ main.pc = 1 /\ Attach("ch1", main.obs[1])
    \/ main.pc = 2 /\ Attach("ch1", main.obs[2])
    \/ main.pc = 3 /\ Attach("ch1", main.obs[3])
    \/ main.pc = 4 /\ UploadVideo("ch1", main.titles[1])
    \/ main.pc = 5 /\ Detach("ch1", main.obs[2])
    \/ main.pc = 6 /\ UploadVideo("ch1", main.titles[2])
    \/ main.pc = 7 /\ Attach("ch1", main.obs[4])
    \/ main.pc = 8 /\ UploadVideo("ch1", main.titles[3])

\* main()'s calls and the fan-outs they start.  All four objects are of the
\* classes of observers.py, whose update returns.
NextDemo == MainCalls \/ UpdateReturns \/ NotifyReturns

\* The run of main().
SpecDemo == InitDemo /\ [][NextDemo]_vars

----------------------------------------------------------------------------
\* States the claims speak about.

\* A call of upload_video has ended, by return or by exception.
UploadEnded == pc = "idle" /\ lastCall.op = "upload_video"

\* Every invocation of the fan-out carried the call's title and the channel's name.
CarriesPayload(o) ==
    \A i \in 1..Len(delivered) : delivered[i].obs = o =>
        /\ delivered[i].video_title = lastCall.title
        /\ delivered[i].channel_name = channel_name[lastCall.chan]

\* The fan-out invoked exactly the observers of the list it began with, once each.
EachSubscriberOnce ==
    \A o \in Observers :
        /\ o \in Elems(snapshot) =>
               Count(Handles(delivered), o) = 1 /\ CarriesPayload(o)
        /\ o \notin Elems(snapshot) => Count(Handles(delivered), o) = 0

\* Two distinct observer objects of one class built with the same string.
Twins(a, b) == a # b /\ ClassOf(a) = ClassOf(b) /\ ConfigOf(a) = ConfigOf(b)

----------------------------------------------------------------------------
\* C1: after upload_video(X) on a channel whose callbacks do not call the
\* registry, every observer in the subscriber list at the moment of the call
\* has had update invoked exactly once with (X, channel_name), and no observer
\* outside the list has been invoked.
C1_UploadNotifiesEachSubscriberOnce ==
    (UploadEnded /\ ~reentered) => EachSubscriberOnce

\* What does hold of C1: an upload_video that returns has notified each once.
C1_ReturnedUploadNotifiedEachOnce ==
    (UploadEnded /\ ~reentered /\ outcome = "returned") => EachSubscriberOnce

\* C2: the subscriber list of a channel never holds a handle more than once.
C2_NoDuplicateSubscribers ==
    \A c \in Channels : \A i, j \in 1..Len(subscribers[c]) :
        i # j => subscribers[c][i] # subscribers[c][j]

\* C2's case: attach was called for a handle already in a list of two or more.
C2_Witness ==
    /\ lastCall.op = "attach" /\ confirmations = <<>>
    /\ Len(subscribers[lastCall.chan]) >= 2

\* C3: the handles in the subscriber list are exactly the handles whose most
\* recent attach/detach call was an attach.
C3_ListIsAttachedMinusDetached ==
    \A c \in Channels : Elems(subscribers[c]) = attached[c]

\* C3's case: a detach has removed a handle and other handles remain.
C3_Witness ==
    /\ lastCall.op = "detach" /\ confirmations # <<>>
    /\ Len(subscribers[lastCall.chan]) >= 2

\* C4: upload_video invokes the callbacks in the order of the subscriber list
\* (the order of attachment), and an upload_video that directly follows
\* another one, with no attach or detach between, invokes the same observers
\* in the same order.
C4_InvocationOrderIsAttachOrderAndStable ==
    (UploadEnded /\ ~reentered) =>
        /\ Handles(delivered) = subscribers[lastCall.chan]
        /\ prev.valid => Handles(delivered) = prev.seq

\* What does hold of C4: the invocations are a prefix of the list, and two
\* consecutive uploads that both return invoke the same sequence.
C4_ReturnedUploadsInvokeInListOrder ==
    (lastCall.op = "upload_video" /\ ~reentered) =>
        /\ Len(delivered) <= Len(subscribers[lastCall.chan])
        /\ Handles(delivered) = SubSeq(subscribers[lastCall.chan], 1, Len(delivered))
        /\ (pc = "idle" /\ outcome = "returned") =>
               /\ Handles(delivered) = subscribers[lastCall.chan]
               /\ (prev.valid /\ Len(prev.seq) = Len(snapshot)) =>
                      Handles(delivered) = prev.seq

\* C5: when an update raises during notify, every observer placed after it
\* in the subscriber list still has its update invoked for that publish.
C5_RaiseDoesNotStopFanOut ==
    (pc = "idle" /\ outcome = "raised" /\ ~reentered) =>
        \A i \in 1..Len(snapshot) : snapshot[i] \in Elems(Handles(delivered))

\* C6: the stored latest video always equals the argument of the most recent
\* upload_video call, and every update invoked by upload_video(X) receives X.
C6_LatestVideoIsLastPublished ==
    /\ \A c \in Channels : latest_video[c] = published[c]
    /\ lastCall.op = "upload_video" =>
           \A i \in 1..Len(delivered) : delivered[i].video_title = lastCall.title

\* C6's case: an update runs inside a publish that follows a publish of
\* another title.
C6_Witness ==
    /\ pc = "notify" /\ lastCall.op = "upload_video" /\ Len(delivered) >= 1
    /\ prev.title # "" /\ prev.title # lastCall.title

\* C7: attach(h) directly after attach(h) leaves the list as the single
\* attach left it, and attach of a subscribed handle leaves the list as it is
\* (same length, same order, the handle not moved).
C7_AttachIdempotent ==
    [][\A c \in Channels, h \in Observers :
          /\ (Attach(c, h) /\ (h \in Elems(subscribers[c]) \/ Again("attach", c, h)))
                 => subscribers' = subscribers
          /\ (UpdateAttaches(h) /\ h \in Elems(subscribers[cur]))
                 => subscribers' = subscribers]_vars

\* C7's case: attach(h) was called while h was the first of a list of two
\* or more, where a move would show.
C7_Witness ==
    /\ lastCall.op = "attach" /\ confirmations = <<>> /\ pc = "idle"
    /\ Len(subscribers[lastCall.chan]) >= 2
    /\ subscribers[lastCall.chan][1] = lastCall.obs

\* C7's other case: attach(h) has directly followed the attach(h) that
\* appended h.
C7_WitnessTwice == lastCall.op = "attach" /\ lastCall.again

\* C8: detach(h) of a handle that is not in the list raises nothing, leaves
\* the subscriber list, the latest video and the channel name unchanged, and
\* prints no confirmation.
C8_DetachAbsentIsNoOp ==
    [][\A c \in Channels, h \in Observers :
          /\ (Detach(c, h) /\ h \notin Elems(subscribers[c]))
                 => /\ UNCHANGED registry
                    /\ outcome' = "returned"
                    /\ confirmations' = <<>>
          /\ (UpdateDetaches(h) /\ h \notin Elems(subscribers[cur]))
                 => /\ UNCHANGED registry
                    /\ confirmations' = confirmations]_vars

\* C8's case: detach was called for a handle absent from a non-empty list.
C8_Witness ==
    /\ lastCall.op = "detach" /\ confirmations = <<>> /\ outcome = "returned"
    /\ lastCall.obs \notin Elems(subscribers[lastCall.chan])
    /\ Len(subscribers[lastCall.chan]) >= 1

\* C9: detach(h) directly after detach(h) leaves the registry state as the
\* single detach left it.
C9_DetachIdempotent ==
    [][\A c \in Channels, h \in Observers :
          (Detach(c, h) /\ lastCall.op = "detach" /\ lastCall.chan = c
                        /\ lastCall.obs = h /\ pc = "idle")
              => UNCHANGED registry]_vars

\* C9's case: detach(h) has directly followed the detach(h) that removed h.
C9_Witness ==
    /\ lastCall.op = "detach" /\ lastCall.again
    /\ Len(subscribers[lastCall.chan]) >= 1

\* C10: two distinct observer objects built with the same configuration are
\* different subscribers: both are in the list when both are attached, each
\* is notified once per publish, and detaching one leaves the other.
C10_MembershipByIdentity ==
    \A a, b \in Observers : Twins(a, b) =>
        /\ \A c \in Channels :
               /\ {a, b} \subseteq attached[c] =>
                      {a, b} \subseteq Elems(subscribers[c])
               /\ (a \notin attached[c] /\ b \in attached[c]) =>
                      (a \notin Elems(subscribers[c]) /\ b \in Elems(subscribers[c]))
        /\ (UploadEnded /\ ~reentered /\ {a, b} \subseteq Elems(snapshot)) =>
               /\ Count(Handles(delivered), a) = 1
               /\ Count(Handles(delivered), b) = 1

\* What does hold of C10: the same, for the publishes that return.
C10_MembershipByIdentityWhenReturned ==
    \A a, b \in Observers : Twins(a, b) =>
        /\ \A c \in Channels :
               /\ {a, b} \subseteq attached[c] =>
                      {a, b} \subseteq Elems(subscribers[c])
               /\ (a \notin attached[c] /\ b \in attached[c]) =>
                      (a \notin Elems(subscribers[c]) /\ b \in Elems(subscribers[c]))
        /\ (UploadEnded /\ ~reentered /\ outcome = "returned"
              /\ {a, b} \subseteq Elems(snapshot)) =>
               /\ Count(Handles(delivered), a) = 1
               /\ Count(Handles(delivered), b) = 1

----------------------------------------------------------------------------
\* C11: attach prints its confirmation exactly when it appends and detach
\* exactly when it removes: on every channel the number of "subscribed"
\* lines minus the number of "unsubscribed" lines printed so far equals the
\* length of the subscriber list, and a call that changes nothing prints
\* nothing.
C11_ConfirmationsTrackTheList ==
    /\ \A c \in Channels : balance[c] = Len(subscribers[c])
    /\ (pc = "idle" /\ lastCall.op \in {"attach", "detach"} /\ lastCall.again) =>
           confirmations = <<>>

\* C11's case: an attach that appended was directly followed by the same
\* attach, which printed nothing, on a list of two.
C11_Witness ==
    /\ pc = "idle" /\ lastCall.op = "attach" /\ lastCall.again
    /\ confirmations = <<>> /\ balance[lastCall.chan] = 2

----------------------------------------------------------------------------
\* A publish of main() has ended with exactly the invocations of sequence seq,
\* each carrying title t and "TechMaster", after announcing Len(seq).
DemoFanOut(seq, t) ==
    /\ outcome = "returned"
    /\ Handles(delivered) = seq
    /\ announced = Len(seq)
    /\ \A i \in 1..Len(delivered) :
           /\ delivered[i].video_title = t
           /\ delivered[i].channel_name = "TechMaster"

\* C12: the reference scenario (attach A, B, C; publish; detach B; publish;
\* attach D; publish) makes exactly three fan-outs, notifying [A, B, C], then
\* [A, C], then [A, C, D], with counts 3, 2 and 3, each notification carrying
\* that publish's title and "TechMaster"; B receives nothing after its detach.
C12_ReferenceScenario ==
    LET A == main.obs[1]
        B == main.obs[2]
        C == main.obs[3]
        D == main.obs[4]
    IN  /\ (lastCall.op = "upload_video") <=> (main.pc \in {5, 7, 9})
        /\ (pc = "notify") => (main.pc \in {5, 7, 9})
        /\ (pc = "idle" /\ main.pc = 5) => DemoFanOut(<<A, B, C>>, main.titles[1])
        /\ (pc = "idle" /\ main.pc = 7) => DemoFanOut(<<A, C>>, main.titles[2])
        /\ (pc = "idle" /\ main.pc = 9) => DemoFanOut(<<A, C, D>>, main.titles[3])
        /\ main.pc >= 6 => B \notin Elems(Handles(delivered))

\* C12's case: main.py's own run has made its third publish.
C12_Witness ==
    /\ main.pc = 9 /\ pc = "idle" /\ Len(delivered) = 3
    /\ main.obs = <<11, 12, 13, 14>>
    /\ main.titles = <<"Python Design Patterns Tutorial",
                       "Advanced Observer Pattern Explained",
                       "Clean Code Principles in Python">>

----------------------------------------------------------------------------
\* A call of notify() has ended on a channel nothing was uploaded to.
NotifyBeforeUploadEnded ==
    /\ pc = "idle" /\ lastCall.op = "notify"
    /\ published[lastCall.chan] = ""

\* C13: notify() before any upload_video is not an error: it invokes every
\* current subscriber exactly once with the empty string and the channel
\* name, and the latest video stays empty until the first upload_video.
C13_NotifyBeforeUpload ==
    /\ \A c \in Channels : published[c] = "" => latest_video[c] = ""
    /\ (NotifyBeforeUploadEnded /\ ~reentered) =>
           /\ \A o \in Observers :
                  Count(Handles(delivered), o) = (IF o \in Elems(snapshot) THEN 1 ELSE 0)
           /\ \A i \in 1..Len(delivered) :
                  /\ delivered[i].video_title = ""
                  /\ delivered[i].channel_name = channel_name[lastCall.chan]

\* What does hold of C13: the payload is the empty string in every update of
\* such a notify(), no observer is invoked twice or from outside the list,
\* and a notify() that returns has invoked each subscriber once.
C13_NotifyBeforeUploadWhenReturned ==
    /\ \A c \in Channels : published[c] = "" => latest_video[c] = ""
    /\ (lastCall.op = "notify" /\ published[lastCall.chan] = "" /\ ~reentered) =>
           /\ \A o \in Observers :
                  Count(Handles(delivered), o) <= (IF o \in Elems(snapshot) THEN 1 ELSE 0)
           /\ \A i \in 1..Len(delivered) :
                  /\ delivered[i].video_title = ""
                  /\ delivered[i].channel_name = channel_name[lastCall.chan]
           /\ (pc = "idle" /\ outcome = "returned") =>
                  \A o \in Elems(snapshot) : Count(Handles(delivered), o) = 1

----------------------------------------------------------------------------
\* C14: the channel name never changes after construction, whatever is
\* called, and every update invocation carries the name given at construction.
C14_ChannelNameImmutable ==
    /\ channel_name = [c \in Channels |-> NameOf(c)]
    /\ \A i \in 1..Len(delivered) : delivered[i].channel_name = NameOf(cur)

\* C14's case: after attach, detach and upload_video calls, a direct notify()
\* has invoked two updates.
C14_Witness ==
    /\ lastCall.op = "notify" /\ Len(delivered) >= 2
    /\ published[cur] # "" /\ Len(subscribers[cur]) < NumObservers

----------------------------------------------------------------------------
\* C15: two registries are independent: attach, detach and upload_video on
\* one instance, and the fan-out it starts, never change the other
\* instance's subscriber list or latest video, and every update invocation
\* carries the publishing instance's own channel name and payload.
\* (cur' is the instance a step belongs to: the one called, or the one whose
\* fan-out runs.)
C15_RegistriesIndependent ==
    [][/\ \A d \in Channels :
            d # cur' => /\ subscribers'[d] = subscribers[d]
                        /\ latest_video'[d] = latest_video[d]
       /\ \A i \in 1..Len(delivered') :
            /\ delivered'[i].channel_name = NameOf(cur')
            /\ delivered'[i].video_title = latest_video'[cur']
            /\ lastCall'.op = "upload_video" =>
                   delivered'[i].video_title = lastCall'.title]_vars

\* C15's case: a handle is in the lists of both instances, both have
\* published, and the second instance has just notified it.
C15_Witness ==
    \E h \in Observers :
        /\ h \in Elems(subscribers["ch1"]) /\ h \in Elems(subscribers["ch2"])
        /\ lastCall.op = "upload_video" /\ lastCall.chan = "ch2" /\ pc = "idle"
        /\ h \in Elems(Handles(delivered))
        /\ latest_video["ch1"] # "" /\ latest_video["ch1"] # latest_video["ch2"]
        /\ Len(subscribers["ch1"]) # Len(subscribers["ch2"])

----------------------------------------------------------------------------
\* The calls updates made during the running (or last) call printed only
\* lines of this kind, and at least one.
OnlyPrinted(kind) ==
    /\ confirmations # <<>>
    /\ \A i \in 1..Len(confirmations) : confirmations[i].kind = kind

\* An update of the running (or last) call detached o, or an object that
\* prints like o.
DetachedInFanOut(o) ==
    \E i \in 1..Len(confirmations) :
        confirmations[i].kind = "unsubscribed" /\ confirmations[i].who = Str(o)

\* C16: when a callback detaches a subscriber (itself, say) during a fan-out,
\* nobody else is skipped: every observer that was in the list when
\* upload_video was called and was not detached is invoked exactly once.
C16_DetachInFanOutSkipsNobody ==
    (UploadEnded /\ outcome = "returned" /\ OnlyPrinted("unsubscribed")) =>
        \A o \in Elems(snapshot) :
            ~DetachedInFanOut(o) => Count(Handles(delivered), o) = 1

\* What does hold of C16: such a fan-out invokes nobody twice and nobody from
\* outside the list it began with.
C16_DetachInFanOutInvokesAtMostOnce ==
    (lastCall.op = "upload_video" /\ (confirmations = <<>> \/ OnlyPrinted("unsubscribed"))) =>
        \A o \in Observers :
            Count(Handles(delivered), o) <= (IF o \in Elems(snapshot) THEN 1 ELSE 0)

\* C17: the observers one upload_video invokes are fixed by the list at the
\* time of the call: an observer a callback attaches during the fan-out is
\* not invoked in it, and the fan-out makes no more invocations than the list
\* had entries.
C17_FanOutFixedAtCall ==
    (lastCall.op = "upload_video" /\ OnlyPrinted("subscribed")) =>
        /\ \A o \in Observers :
               o \notin Elems(snapshot) => Count(Handles(delivered), o) = 0
        /\ Len(delivered) <= Len(snapshot)

\* What does hold of C17: an observer attached during a fan-out is also
\* notified by the next publish, and with the objects at hand the fan-out
\* invokes no observer twice.
C17_AttachInFanOutInvokesAtMostOnce ==
    (lastCall.op = "upload_video" /\ (confirmations = <<>> \/ OnlyPrinted("subscribed"))) =>
        /\ \A o \in Observers : Count(Handles(delivered), o) <= 1
        /\ Len(delivered) <= NumObservers

----------------------------------------------------------------------------
\* C18: detach(h) of a subscribed handle removes only h and keeps the
\* relative order of the others; attach(h) of an absent handle appends it at
\* the end, so a handle detached and attached again comes after every
\* subscriber that stayed.  The same for the calls callbacks make.
C18_DetachKeepsOrderAttachAppends ==
    [][/\ \A c \in Channels, h \in Observers :
            /\ (Detach(c, h) /\ h \in Elems(subscribers[c])) =>
                   subscribers'[c] = SelectSeq(subscribers[c], LAMBDA x : x # h)
            /\ (Attach(c, h) /\ h \notin Elems(subscribers[c])) =>
                   subscribers'[c] = Append(subscribers[c], h)
       /\ \A h \in Observers :
            /\ (UpdateDetaches(h) /\ h \in Elems(subscribers[cur])) =>
                   subscribers'[cur] = SelectSeq(subscribers[cur], LAMBDA x : x # h)
            /\ (UpdateAttaches(h) /\ h \notin Elems(subscribers[cur])) =>
                   subscribers'[cur] = Append(subscribers[cur], h)]_vars

\* C18's case: attach has appended object 1 behind two subscribers that
\* were attached before it.
C18_Witness ==
    /\ pc = "idle" /\ lastCall.op = "attach" /\ lastCall.obs = 1
    /\ confirmations # <<>>
    /\ Len(subscribers[lastCall.chan]) = 3
    /\ subscribers[lastCall.chan][3] = 1

\* C19: attach and detach never change the latest video and invoke no
\* callback; upload_video and notify, with callbacks that do not call the
\* registry, never change the subscriber list; notify never changes the
\* latest video.
C19_FrameConditions ==
    [][/\ \A c \in Channels, h \in Observers :
            (Attach(c, h) \/ Detach(c, h)) =>
                /\ latest_video' = latest_video
                /\ delivered' = <<>>
                /\ pc' = "idle"
       /\ (pc = "idle" /\ lastCall.op \in {"attach", "detach"}) => delivered = <<>>
       /\ (\/ \E c \in Channels, t \in Titles : UploadVideo(c, t)
           \/ \E c \in Channels : Notify(c)
           \/ UpdateReturns \/ UpdateRaises \/ NotifyReturns) =>
                subscribers' = subscribers
       /\ (\/ \E c \in Channels : Notify(c)
           \/ FanOut) =>
                latest_video' = latest_video]_vars

\* C19's case: a detach has removed a handle from a channel that has
\* published, leaving one subscriber.
C19_Witness ==
    /\ pc = "idle" /\ lastCall.op = "detach" /\ confirmations # <<>>
    /\ latest_video[lastCall.chan] # ""
    /\ Len(subscribers[lastCall.chan]) = 1

====
